---------------------------- MODULE Spec2Model ----------------------------
(***************************************************************************)
(* A model of benchify's benchmark execution engine.                       *)
(*                                                                         *)
(*   src/src/wait_for_free_cpu.rs  the process-wide "free CPU" limiter     *)
(*   src/src/main.rs               Tool::run, BenchifyConfig::get_timings, *)
(*                                 BenchifyConfig::execute                 *)
(*                                                                         *)
(* These specifications share the variables below:                         *)
(*   LimiterSpec  threads calling and_run / restrict_free_cpus_to          *)
(*   LimiterFairSpec  the same, with every thread scheduled fairly         *)
(*   RunSpec      Tool::run applied to one drawn execution                 *)
(*   Spec         BenchifyConfig::execute over two tests and two tools     *)
(*   SamplerSpec  the same program over one pair, with a wider choice of   *)
(*                run counts and execution times                           *)
(*   ReportSpec   Statistics::new, format_summary and the grouped views    *)
(*                applied to the results execute returns                   *)
(* Durations are whole deciseconds (tenths of a second).  The f32 quotient *)
(* of get_timings is computed exactly on these integers.                   *)
(***************************************************************************)
EXTENDS Integers, Sequences, FiniteSets, TLC

\* ------------------------------------------------------------------ bounds

\* Threads that call and_run.
NThreads == 3

\* What num_cpus::get() returns on the host.
TotalCpus == 2

\* Largest max_runs drawn by SamplerSpec.
MaxRuns == 3

\* Largest max_runs drawn by Spec.
MaxRunsExec == 3

\* Largest warmup count drawn.
MaxWarmup == 1

\* Execution times are multiples of DurationStep deciseconds, up to
\* MaxDurationSteps of them.
DurationStep == 10

MaxDurationSteps == 2

\* ------------------------------------------------------- program constants

\* expected_time_seconds = 2.5f32, in deciseconds.
expected_time_ds == 25

\* min(max_runs, 2): the number of initial estimates.
InitialEstimateCap == 2

\* ----------------------------------------------------------------- helpers

\* Option<T>: None is the empty tuple, Some(x) the one-element tuple.
None == <<>>

Some(x) == <<x>>

IsSome(o) == o # <<>>

Unwrap(o) == o[1]

Option(S) == {None} \cup {Some(x) : x \in S}

Min(a, b) == IF a <= b THEN a ELSE b

Max(a, b) == IF a >= b THEN a ELSE b

Durations == {k * DurationStep : k \in 0..MaxDurationSteps}

\* What `timer.elapsed()` can be around a child process: never zero.
ElapsedTimes == Durations \ {0}

VARIABLES
    \* wait_for_free_cpu.rs
    num_cpus,       \* WaitForFreeCPU.num_cpus: the ceiling
    num_blocked,    \* WaitForFreeCPU.num_blocked: slots in use
    mutex,          \* holder of the WAIT_FOR_FREE_CPU mutex, or None
    pc,             \* where each thread is inside and_run
    setter,         \* the argument of the latest restrict_free_cpus_to call
    \* Tool::run on one drawn execution
    run_test,       \* the Test the execution is for
    run_in,         \* what the child processes do
    run_out,        \* what Tool::run returns, None before it has run
    \* BenchifyConfig (fixed by Init)
    parallel_prep, warmup, min_runs, max_runs, main_tool, tools, tests,
    workload,       \* per test: the times one execution may take
    \* BenchifyConfig::execute
    status,         \* running | done | error | exit1 | panic
    phase,          \* the place in execute / get_timings
    cur,            \* index of the (test, tool) pair being processed
    prep,           \* parallel preparation: per pair pending|running|ok|failed
    warm_done,      \* warmup runs completed for the current pair
    initial_estimates, remaining_iterations, preferred,
    timings,        \* what get_timings returned for the current pair
    results,        \* the tuples collected so far
    log,            \* history of the child executions of the sequential loop
    \* BenchifyResults: the views and summaries computed from `results`
    by_test,        \* what results_by_test returned, None before the call
    by_executor,    \* what results_by_executor returned, None before the call
    summaries       \* what format_summary returned, test after test

limiterVars == <<num_cpus, num_blocked, mutex, pc, setter>>

runVars == <<run_test, run_in, run_out>>

cfgVars == <<parallel_prep, warmup, min_runs, max_runs, main_tool, tools, tests,
             workload>>

execVars == <<status, phase, cur, prep, warm_done, initial_estimates,
              remaining_iterations, preferred, timings, results, log>>

reportVars == <<by_test, by_executor, summaries>>

vars == <<limiterVars, runVars, cfgVars, execVars, reportVars>>

\* What a step of one part of the program leaves alone.
LimiterFrame == UNCHANGED <<runVars, cfgVars, execVars, reportVars>>

RunFrame == UNCHANGED <<limiterVars, cfgVars, execVars, reportVars>>

ExecFrame == UNCHANGED <<limiterVars, runVars, cfgVars, reportVars>>

ReportFrame == UNCHANGED <<limiterVars, runVars, cfgVars>>

\* ======================================================================
\* wait_for_free_cpu.rs
\* ======================================================================

Threads == 1..NThreads

\* The caller of restrict_free_cpus_to, as a holder of the mutex.
SetterId == NThreads + 1

\* Arguments a restrict_free_cpus_to call may pass (usize, so >= 0).
LimitArgs == 0..(TotalCpus + 1)

\* lazy_static WAIT_FOR_FREE_CPU: num_cpus = num_cpus::get(), num_blocked = 0.
LimiterInit ==
    /\ num_cpus = TotalCpus
    /\ num_blocked = 0
    /\ mutex = None
    /\ pc = [t \in Threads |-> "idle"]
    /\ setter = None

\* C1 mutant: an off-by-one test admits a caller when every slot is taken.
HasFreeCpu_offByOne(blocked, cpus) == blocked <= cpus

\* `if w.num_blocked < w.num_cpus`
HasFreeCpu(blocked, cpus) == blocked < cpus

\* C2 mutant: the clamp from below is forgotten.
ClampedLimit_noFloor(n, blocked) == Min(n, TotalCpus)

\* C24 mutant: the ceiling is kept at 1 or more.
ClampedLimit_atLeastOne(n, blocked) == Max(1, Min(Max(n, blocked), TotalCpus))

\* `n.max(w.num_blocked)` then `n.min(num_cpus::get())`
ClampedLimit(n, blocked) == Min(Max(n, blocked), TotalCpus)

\* A thread enters and_run.
Call(t) ==
    /\ LimiterFrame
    /\ pc[t] = "idle"
    /\ pc' = [pc EXCEPT ![t] = "loop"]
    /\ UNCHANGED <<num_cpus, num_blocked, mutex, setter>>

\* `let mut w = WAIT_FOR_FREE_CPU.lock().unwrap();`
Lock(t) ==
    /\ LimiterFrame
    /\ pc[t] = "loop"
    /\ mutex = None
    /\ mutex' = Some(t)
    /\ pc' = [pc EXCEPT ![t] = "locked"]
    /\ UNCHANGED <<num_cpus, num_blocked, setter>>

\* C23 mutant: the guard is kept until the end of the loop body.
GuardAfterCheck_kept(t) == Some(t)

\* `drop(w)` in both branches of the `if`, before `f()` and before the
\* sleep: the holder of the mutex afterwards.
GuardAfterCheck(t) == None

\* The `if` under the lock: take a slot and drop the guard, or drop the
\* guard and go to sleep.
CheckFree(t) ==
    /\ LimiterFrame
    /\ pc[t] = "locked"
    /\ mutex = Some(t)
    /\ mutex' = GuardAfterCheck(t)
    /\ IF HasFreeCpu(num_blocked, num_cpus)
       THEN /\ num_blocked' = num_blocked + 1
            /\ pc' = [pc EXCEPT ![t] = "running"]
       ELSE /\ num_blocked' = num_blocked
            /\ pc' = [pc EXCEPT ![t] = "sleeping"]
    /\ UNCHANGED <<num_cpus, setter>>

\* `std::thread::sleep(100 ms)` ends and the loop starts over.
Wake(t) ==
    /\ LimiterFrame
    /\ pc[t] = "sleeping"
    /\ pc' = [pc EXCEPT ![t] = "loop"]
    /\ UNCHANGED <<num_cpus, num_blocked, mutex, setter>>

\* `let res = f();` returns (an Ok or an Err value alike).
FReturns(t) ==
    /\ LimiterFrame
    /\ pc[t] = "running"
    /\ pc' = [pc EXCEPT ![t] = "release"]
    /\ UNCHANGED <<num_cpus, num_blocked, mutex, setter>>

\* f panics: the unwinding leaves and_run without reaching the decrement
\* (no guard object owns the slot).  The mutex is not held, so it is not
\* poisoned.
FPanics(t) ==
    /\ LimiterFrame
    /\ pc[t] = "running"
    /\ pc' = [pc EXCEPT ![t] = "panicked"]
    /\ UNCHANGED <<num_cpus, num_blocked, mutex, setter>>

\* `WAIT_FOR_FREE_CPU.lock().unwrap().num_blocked -= 1; return res;`
Release(t) ==
    /\ LimiterFrame
    /\ pc[t] = "release"
    /\ mutex = None
    /\ num_blocked' = num_blocked - 1
    /\ pc' = [pc EXCEPT ![t] = "idle"]
    /\ UNCHANGED <<num_cpus, mutex, setter>>

\* restrict_free_cpus_to(n) takes the lock ...
RestrictLock(n) ==
    /\ LimiterFrame
    /\ mutex = None
    /\ mutex' = Some(SetterId)
    /\ setter' = Some(n)
    /\ UNCHANGED <<num_cpus, num_blocked, pc>>

\* ... clamps n, stores it and drops the guard.
RestrictSet ==
    /\ LimiterFrame
    /\ mutex = Some(SetterId)
    /\ num_cpus' = ClampedLimit(Unwrap(setter), num_blocked)
    /\ mutex' = None
    /\ UNCHANGED <<num_blocked, pc, setter>>

LimiterNext ==
    \/ \E t \in Threads : Call(t)
    \/ \E t \in Threads : Lock(t)
    \/ \E t \in Threads : CheckFree(t)
    \/ \E t \in Threads : Wake(t)
    \/ \E t \in Threads : FReturns(t)
    \/ \E t \in Threads : FPanics(t)
    \/ \E t \in Threads : Release(t)
    \/ \E n \in LimitArgs : RestrictLock(n)
    \/ RestrictSet

\* ======================================================================
\* main.rs: Tool::run
\* ======================================================================

\* What the timed child wrote to its standard output: a decimal number of
\* seconds (here a whole number of deciseconds), a negative number, or
\* something that does not parse as f64.
Stdout(kind, ds) == [kind |-> kind, ds |-> ds]

StdoutTokens ==
    {Stdout("number", d) : d \in Durations} \cup {Stdout("garbage", 0), Stdout("negative", 0)}

\* One execution as the operating system plays it: whether the stdin feeder
\* and the program could be spawned, the exit status, the time measured
\* around the child, and its standard output.
RunInput(feeder, spawned, success, elapsed, out) ==
    [feeder_spawned |-> feeder, spawned |-> spawned, success |-> success,
     elapsed |-> elapsed, stdout |-> out]

RunOk(d) == [kind |-> "ok", time |-> d, err |-> ""]

RunErr(e) == [kind |-> "err", time |-> 0, err |-> e]

\* Duration::from_secs_f64 panics on a negative value.
RunPanic == [kind |-> "panic", time |-> 0, err |-> "from_secs_f64"]

\* `if timing > elapsed_time`
TimingRejected(timing, elapsed_time) == timing > elapsed_time

\* Tool::run(test): Ok(duration), Err(report) or a panic.
Tool_run(test, in) ==
    IF test.stdin_from_cmd /\ ~in.feeder_spawned THEN RunErr("spawn")
    ELSE IF ~in.spawned THEN RunErr("spawn")
    ELSE IF ~in.success THEN RunErr("nonzero")
    ELSE IF test.stdout_is_timing = Some(TRUE)
         THEN IF in.stdout.kind = "garbage" THEN RunErr("parse")
              ELSE IF in.stdout.kind = "negative" THEN RunPanic
              ELSE IF TimingRejected(in.stdout.ds, in.elapsed)
                   THEN RunErr("lied")
                   ELSE RunOk(in.stdout.ds)
         ELSE RunOk(in.elapsed)

Test(name, feeder, stdout_is_timing) ==
    [name |-> name, tag |-> "tag", stdin_from_cmd |-> feeder,
     stdout_is_timing |-> stdout_is_timing]

AllRunInputs ==
    {RunInput(f, s, x, e, o) :
        f \in BOOLEAN, s \in BOOLEAN, x \in BOOLEAN, e \in ElapsedTimes, o \in StdoutTokens}

RunTests == {Test("t1", f, t) : f \in BOOLEAN, t \in Option(BOOLEAN)}

\* The variables of Tool::run while another specification runs.
RunIdle ==
    /\ run_test = Test("t1", FALSE, None)
    /\ run_in = RunInput(TRUE, TRUE, TRUE, DurationStep, Stdout("garbage", 0))
    /\ run_out = None

RunInit ==
    /\ run_test \in RunTests
    /\ run_in \in AllRunInputs
    /\ run_out = None

\* The drawn execution is run once.
ApplyRun ==
    /\ RunFrame
    /\ run_out = None
    /\ run_out' = Some(Tool_run(run_test, run_in))
    /\ UNCHANGED <<run_test, run_in>>

RunNext == ApplyRun

\* ======================================================================
\* main.rs: BenchifyConfig::get_timings and BenchifyConfig::execute
\* ======================================================================

\* Result<Vec<Duration>>
Ok(ts) == [ok |-> TRUE, timings |-> ts, err |-> ""]

Err(e) == [ok |-> FALSE, timings |-> <<>>, err |-> e]

Runner(w, p, c) == [warmup |-> w, prepare |-> p, cleanup |-> c]

Tool(name, runner) == [name |-> name, runners |-> [tag \in {"tag"} |-> runner]]

NTests == Len(tests)

NTools == Len(tools)

NPairs == NTests * NTools

\* C16 mutant: the tests alternate from one pair to the next.
TestOf_alternating(k) == ((k - 1) % NTests) + 1

\* The k-th (test, tool) pair of `tests.iter().map(|test| tools.iter()...)
\* .flatten()`: test-major, tool-minor.
TestOf(k) == ((k - 1) \div NTools) + 1

ToolOf(k) == ((k - 1) % NTools) + 1

RunnerOf(k) == tools[ToolOf(k)].runners[tests[TestOf(k)].tag]

\* C15 mutant: the global count comes before the runner's own.
WarmupRuns_globalFirst(k) ==
    LET w == IF IsSome(warmup) THEN warmup ELSE RunnerOf(k).warmup
    IN  IF IsSome(w) THEN Unwrap(w) ELSE 0

\* `tool.runners[&test.tag].warmup.or(global_warmup)`
WarmupRuns(k) ==
    LET w == IF IsSome(RunnerOf(k).warmup) THEN RunnerOf(k).warmup ELSE warmup
    IN  IF IsSome(w) THEN Unwrap(w) ELSE 0

\* C14 mutant: two initial estimates, whatever max_runs is.
num_initial_estimates_two == InitialEstimateCap

\* `self.max_runs().min(2)`
num_initial_estimates == Min(max_runs, InitialEstimateCap)

RECURSIVE SumSeq(_)
SumSeq(s) == IF s = <<>> THEN 0 ELSE s[1] + SumSeq(Tail(s))

\* C7 mutant: the clamp to max_runs is dropped.
preferred_number_of_iterations_noCap(estimates) ==
    LET n == Len(estimates)
        total == SumSeq(estimates)
    IN  IF n = 0 THEN min_runs
        ELSE IF total = 0 THEN max_runs + n + 1
        ELSE Max(min_runs, (expected_time_ds * n) \div total)

\* `self.max_runs().min(self.min_runs().max((expected / mean) as u32))` with
\* mean = sum / n.  The cast saturates: 0/0 is NaN and casts to 0, x/0 is
\* +inf and casts to u32::MAX, which max_runs (a u32) never exceeds.
preferred_number_of_iterations(estimates) ==
    LET n == Len(estimates)
        total == SumSeq(estimates)
    IN  IF n = 0 THEN Min(max_runs, Max(min_runs, 0))
        ELSE IF total = 0 THEN max_runs
        ELSE Min(max_runs, Max(min_runs, (expected_time_ds * n) \div total))

\* The executions the environment may play for one run of pair k: a non-zero
\* exit, or a success within the test's workload (every way Tool::run can
\* fail is drawn in RunSpec; get_timings treats every Err alike).
ExecInputs(k) ==
    LET test == tests[TestOf(k)]
        outs == IF test.stdout_is_timing = Some(TRUE)
                THEN StdoutTokens
                ELSE {Stdout("garbage", 0)}
    IN  {RunInput(TRUE, TRUE, FALSE, DurationStep, Stdout("garbage", 0))}
        \cup {RunInput(TRUE, TRUE, TRUE, e, o) : e \in workload[TestOf(k)], o \in outs}

\* One child execution of the sequential loop: what it was for, the pair, and
\* how it ended (ok | err | panic).
Event(kind, k, res) == [kind |-> kind, pair |-> k, res |-> res]

Res(ok) == IF ok THEN "ok" ELSE "err"

Running == status = "running"

\* The locals of get_timings as they are when it is entered.
FreshLocals ==
    /\ warm_done' = 0
    /\ initial_estimates' = <<>>
    /\ remaining_iterations' = <<>>
    /\ preferred' = 0
    /\ timings' = None

\* `if self.min_runs() > self.max_runs() { errored = true } ...
\*  if errored { std::process::exit(1) }`
ConfirmSanity ==
    /\ ExecFrame
    /\ Running /\ phase = "sanity"
    /\ IF min_runs > max_runs
       THEN status' = "exit1" /\ phase' = phase
       ELSE /\ status' = (IF ~parallel_prep /\ NPairs = 0 THEN "done" ELSE status)
            /\ phase' = (IF parallel_prep THEN "par_prep"
                         ELSE IF NPairs = 0 THEN "end" ELSE "prepare")
    /\ UNCHANGED <<cur, prep, warm_done, initial_estimates, remaining_iterations,
                   preferred, timings, results, log>>

\* C9 mutant: the runner's cleanup command is ignored.
CleanupDefined_never(k) == FALSE

\* C26 mutant: the cleanup command is run only after a successful sampling.
CleanupDefined_onlyOnSuccess(k) ==
    IsSome(RunnerOf(k).cleanup) /\ IsSome(timings) /\ Unwrap(timings).ok

\* `if let Some(cmd) = &self.runners[&test.tag].cleanup`
CleanupDefined(k) == IsSome(RunnerOf(k).cleanup)

\* `if let Some(cmd) = &runner.prepare`
PrepareDefined(k) == IsSome(RunnerOf(k).prepare)

\* ---- parallel preparation: t_t_pb.par_iter_mut().all(|..| prepare(..).is_ok())

\* A rayon worker takes pair k.  Without a prepare command Tool::prepare
\* returns Ok at once.
ParPrepStart(k) ==
    /\ ExecFrame
    /\ Running /\ phase = "par_prep"
    /\ prep[k] = "pending"
    /\ prep' = [prep EXCEPT ![k] = IF PrepareDefined(k) THEN "running" ELSE "ok"]
    /\ UNCHANGED <<status, phase, cur, warm_done, initial_estimates,
                   remaining_iterations, preferred, timings, results, log>>

\* The preparation command of pair k ends (spawn failure and non-zero exit
\* are both an Err of run_cmd).
ParPrepFinish(k, ok) ==
    /\ ExecFrame
    /\ Running /\ phase = "par_prep"
    /\ prep[k] = "running"
    /\ prep' = [prep EXCEPT ![k] = IF ok THEN "ok" ELSE "failed"]
    /\ UNCHANGED <<status, phase, cur, warm_done, initial_estimates,
                   remaining_iterations, preferred, timings, results, log>>

\* C3 mutant: the result of all() is ignored.
PreparationFailed_ignored == FALSE

\* `!t_t_pb.par_iter_mut().all(...)`
PreparationFailed == \E k \in 1..NPairs : prep[k] = "failed"

\* all() returns: every started preparation has ended, and either every pair
\* was prepared or a failure made the workers skip the pending ones.  Then
\* exit(1), or `mpb_thread.join().unwrap()?` (io_ok: the io::Result of
\* join_and_clear).
ParPrepJoin(io_ok) ==
    /\ ExecFrame
    /\ Running /\ phase = "par_prep"
    /\ \A k \in 1..NPairs : prep[k] # "running"
    /\ \/ \A k \in 1..NPairs : prep[k] = "ok"
       \/ \E k \in 1..NPairs : prep[k] = "failed"
    /\ IF PreparationFailed
       THEN status' = "exit1" /\ phase' = phase
       ELSE IF ~io_ok
       THEN status' = "error" /\ phase' = phase
       ELSE /\ status' = (IF NPairs = 0 THEN "done" ELSE status)
            /\ phase' = (IF NPairs = 0 THEN "end" ELSE "prepare")
    /\ UNCHANGED <<cur, prep, warm_done, initial_estimates, remaining_iterations,
                   preferred, timings, results, log>>

\* ---- the sequential loop over the pairs

\* C5 mutant: a failed preparation is recorded like a failed measurement.
PrepareFailed_recorded ==
    /\ status' = status
    /\ phase' = "cleanup"
    /\ timings' = Some(Err("prepare"))
    /\ results' = results

\* `tool.prepare(test, None)?` fails: the closure returns Err, collect stops
\* and drops what it gathered, execute returns Err.
PrepareFailed ==
    /\ status' = "error"
    /\ phase' = phase
    /\ timings' = timings
    /\ results' = <<>>

\* `if !self.parallel_prep() { tool.prepare(test, None)?; }` and the entry
\* into get_timings.
Prepare ==
    /\ ExecFrame
    /\ Running /\ phase = "prepare"
    /\ IF ~parallel_prep /\ PrepareDefined(cur)
       THEN \E ok \in BOOLEAN :
              /\ log' = Append(log, Event("prepare", cur, Res(ok)))
              /\ IF ok
                 THEN phase' = "warmup" /\ UNCHANGED <<status, timings, results>>
                 ELSE PrepareFailed
       ELSE phase' = "warmup" /\ UNCHANGED <<status, timings, results, log>>
    /\ UNCHANGED <<cur, prep, warm_done, initial_estimates, remaining_iterations,
                   preferred>>

\* C4 mutant: `let timings = self.get_timings(..)?` aborts the run.
SamplingFailed_propagated(e) ==
    /\ timings' = Some(Err(e))
    /\ phase' = "cleanup"
    /\ status' = "error"

\* C6 mutant: the measurements taken so far travel with the failure.
SamplingFailed_keepsPartial(e) ==
    /\ timings' = Some([ok |-> FALSE,
                        timings |-> initial_estimates \o remaining_iterations,
                        err |-> e])
    /\ phase' = "cleanup"
    /\ status' = status

\* `tool.run(test).map_err(..)?` / `.collect::<Result<Vec<_>>>()?` inside
\* get_timings: it returns Err(e) at once, and execute binds that to
\* `timings` and goes on to the cleanup.
SamplingFailed(e) ==
    /\ timings' = Some(Err(e))
    /\ phase' = "cleanup"
    /\ status' = status

\* A panic unwinds out of execute.
Panicked ==
    /\ timings' = timings
    /\ phase' = phase
    /\ status' = "panic"

\* One warmup run: `for _ in 0..warmup_runs { tool.run(test)...?; }`
WarmupRun ==
    /\ ExecFrame
    /\ Running /\ phase = "warmup"
    /\ warm_done < WarmupRuns(cur)
    /\ \E in \in ExecInputs(cur) :
         LET r == Tool_run(tests[TestOf(cur)], in) IN
         /\ log' = Append(log, Event("warmup", cur, r.kind))
         /\ CASE r.kind = "ok" ->
                   /\ warm_done' = warm_done + 1
                   /\ UNCHANGED <<status, phase, timings>>
              [] r.kind = "err" -> SamplingFailed(r.err) /\ UNCHANGED warm_done
              [] OTHER -> Panicked /\ UNCHANGED warm_done
    /\ UNCHANGED <<cur, prep, initial_estimates, remaining_iterations, preferred,
                   results>>

\* The warmup loop is over (or there is no warmup count).
WarmupEnd ==
    /\ ExecFrame
    /\ Running /\ phase = "warmup"
    /\ warm_done >= WarmupRuns(cur)
    /\ phase' = "initial"
    /\ UNCHANGED <<status, cur, prep, warm_done, initial_estimates,
                   remaining_iterations, preferred, timings, results, log>>

\* One initial estimate: `(0..num_initial_estimates).map(|_| tool.run(test))`
InitialRun ==
    /\ ExecFrame
    /\ Running /\ phase = "initial"
    /\ Len(initial_estimates) < num_initial_estimates
    /\ \E in \in ExecInputs(cur) :
         LET r == Tool_run(tests[TestOf(cur)], in) IN
         /\ log' = Append(log, Event("initial", cur, r.kind))
         /\ CASE r.kind = "ok" ->
                   /\ initial_estimates' = Append(initial_estimates, r.time)
                   /\ UNCHANGED <<status, phase, timings>>
              [] r.kind = "err" -> SamplingFailed(r.err) /\ UNCHANGED initial_estimates
              [] OTHER -> Panicked /\ UNCHANGED initial_estimates
    /\ UNCHANGED <<cur, prep, warm_done, remaining_iterations, preferred, results>>

\* The initial estimates are collected: the mean and the preferred number of
\* iterations are computed.
ComputePreferred ==
    /\ ExecFrame
    /\ Running /\ phase = "initial"
    /\ Len(initial_estimates) >= num_initial_estimates
    /\ preferred' = preferred_number_of_iterations(initial_estimates)
    /\ phase' = "remaining"
    /\ UNCHANGED <<status, cur, prep, warm_done, initial_estimates,
                   remaining_iterations, timings, results, log>>

\* One more iteration:
\* `(num_initial_estimates..preferred_number_of_iterations).map(|i| tool.run(test))`
RemainingRun ==
    /\ ExecFrame
    /\ Running /\ phase = "remaining"
    /\ num_initial_estimates + Len(remaining_iterations) < preferred
    /\ \E in \in ExecInputs(cur) :
         LET r == Tool_run(tests[TestOf(cur)], in) IN
         /\ log' = Append(log, Event("remaining", cur, r.kind))
         /\ CASE r.kind = "ok" ->
                   /\ remaining_iterations' = Append(remaining_iterations, r.time)
                   /\ UNCHANGED <<status, phase, timings>>
              [] r.kind = "err" -> SamplingFailed(r.err) /\ UNCHANGED remaining_iterations
              [] OTHER -> Panicked /\ UNCHANGED remaining_iterations
    /\ UNCHANGED <<cur, prep, warm_done, initial_estimates, preferred, results>>

\* The range is exhausted: `timings = initial.chain(remaining)`,
\* `mean_timing = sum / (timings.len() as u32)` (Duration / 0 panics), Ok(timings).
Finish ==
    /\ ExecFrame
    /\ Running /\ phase = "remaining"
    /\ num_initial_estimates + Len(remaining_iterations) >= preferred
    /\ LET ts == initial_estimates \o remaining_iterations IN
       IF Len(ts) = 0
       THEN Panicked
       ELSE /\ timings' = Some(Ok(ts))
            /\ phase' = "cleanup"
            /\ status' = status
    /\ UNCHANGED <<cur, prep, warm_done, initial_estimates, remaining_iterations,
                   preferred, results, log>>

\* C25 mutant: a failed cleanup is ignored and the pair is recorded.
CleanupFailed_recorded ==
    /\ results' = Append(results,
           <<tests[TestOf(cur)].name, tools[ToolOf(cur)].name, Unwrap(timings)>>)
    /\ cur' = cur + 1
    /\ status' = (IF cur = NPairs THEN "done" ELSE status)
    /\ phase' = (IF cur = NPairs THEN "end" ELSE "prepare")
    /\ FreshLocals

\* `tool.cleanup(test)?` fails: the closure returns Err, collect stops and
\* drops the tuples it gathered, execute returns Err.
CleanupFailed ==
    /\ status' = "error"
    /\ results' = <<>>
    /\ UNCHANGED <<cur, phase, warm_done, initial_estimates,
                   remaining_iterations, preferred, timings>>

\* `tool.cleanup(test)?; Ok((test.name, tool.name, timings))`, and the next
\* pair or the end of collect.
Cleanup ==
    /\ ExecFrame
    /\ Running /\ phase = "cleanup"
    /\ \E ok \in (IF CleanupDefined(cur) THEN BOOLEAN ELSE {TRUE}) :
         /\ log' = (IF CleanupDefined(cur)
                    THEN Append(log, Event("cleanup", cur, Res(ok))) ELSE log)
         /\ IF ok
            THEN /\ results' = Append(results,
                        <<tests[TestOf(cur)].name, tools[ToolOf(cur)].name, Unwrap(timings)>>)
                 /\ cur' = cur + 1
                 /\ status' = (IF cur = NPairs THEN "done" ELSE status)
                 /\ phase' = (IF cur = NPairs THEN "end" ELSE "prepare")
                 /\ FreshLocals
            ELSE CleanupFailed
    /\ UNCHANGED prep

Next ==
    \/ ConfirmSanity
    \/ \E k \in 1..NPairs : ParPrepStart(k)
    \/ \E k \in 1..NPairs, ok \in BOOLEAN : ParPrepFinish(k, ok)
    \/ \E io_ok \in BOOLEAN : ParPrepJoin(io_ok)
    \/ Prepare
    \/ WarmupRun
    \/ WarmupEnd
    \/ InitialRun
    \/ ComputePreferred
    \/ RemainingRun
    \/ Finish
    \/ Cleanup

\* execute is entered with nothing done yet.
ExecStart ==
    /\ status = "running"
    /\ phase = "sanity"
    /\ cur = 1
    /\ prep = [k \in 1..NPairs |-> "pending"]
    /\ warm_done = 0
    /\ initial_estimates = <<>>
    /\ remaining_iterations = <<>>
    /\ preferred = 0
    /\ timings = None
    /\ results = <<>>
    /\ log = <<>>

\* min_runs / max_runs pairs up to hi, those that confirm_config_sanity
\* rejects (min_runs > max_runs) included.
RunBounds(hi) == {<<lo, h>> : lo \in 0..(hi + 1), h \in 0..hi}

\* The runners of Spec: both commands, no prepare command, no cleanup command.
ExecRunners ==
    {Runner(None, Some("sh"), Some("sh")), Runner(None, None, Some("sh")),
     Runner(None, Some("sh"), None)}

\* The configurations of Spec: tests t1, t2 and tools fast, slow;
\* max_runs 0, 1 or MaxRunsExec, and min_runs = max_runs or one above it
\* (rejected by confirm_config_sanity).
ExecConfigs ==
    /\ parallel_prep \in BOOLEAN
    /\ warmup \in Option(1..MaxWarmup)
    /\ main_tool = None
    /\ \E b \in RunBounds(MaxRunsExec) :
         /\ b[2] \in {0, 1, MaxRunsExec}
         /\ b[1] \in {b[2], b[2] + 1}
         /\ min_runs = b[1] /\ max_runs = b[2]
    /\ tests = <<Test("t1", FALSE, None), Test("t2", FALSE, None)>>
    /\ \E r1, r2 \in ExecRunners : tools = <<Tool("fast", r1), Tool("slow", r2)>>
    /\ workload = [i \in 1..2 |-> {DurationStep}]

\* The configurations of SamplerSpec: one test and one tool, preparation
\* in the sequential loop.
SamplerConfigs ==
    /\ parallel_prep = FALSE
    /\ warmup \in Option(0..MaxWarmup)
    /\ main_tool = None
    /\ \E b \in RunBounds(MaxRuns) : min_runs = b[1] /\ max_runs = b[2]
    /\ \E t \in {None, Some(TRUE)} : tests = <<Test("t1", FALSE, t)>>
    /\ \E w \in Option(0..MaxWarmup) :
         tools = <<Tool("fast", Runner(w, Some("sh"), Some("sh")))>>
    /\ workload = [i \in 1..1 |-> ElapsedTimes]

\* The variables of execute while another specification runs.
ExecIdle ==
    /\ parallel_prep = FALSE
    /\ warmup = None
    /\ min_runs = 0
    /\ max_runs = 0
    /\ main_tool = None
    /\ tests = <<>>
    /\ tools = <<>>
    /\ workload = <<>>
    /\ ExecStart

\* No view of the results has been asked for.
ReportIdle ==
    /\ by_test = None
    /\ by_executor = None
    /\ summaries = <<>>

Init == LimiterInit /\ RunIdle /\ ExecConfigs /\ ExecStart /\ ReportIdle

SamplerInit == LimiterInit /\ RunIdle /\ SamplerConfigs /\ ExecStart /\ ReportIdle

Spec == Init /\ [][Next]_vars

\* execute without parallel preparation.
SamplerNext ==
    \/ ConfirmSanity
    \/ Prepare
    \/ WarmupRun
    \/ WarmupEnd
    \/ InitialRun
    \/ ComputePreferred
    \/ RemainingRun
    \/ Finish
    \/ Cleanup

SamplerSpec == SamplerInit /\ [][SamplerNext]_vars

LimiterSpecInit == LimiterInit /\ RunIdle /\ ExecIdle /\ ReportIdle

RunSpecInit == LimiterInit /\ RunInit /\ ExecIdle /\ ReportIdle

LimiterSpec == LimiterSpecInit /\ [][LimiterNext]_vars

\* Every thread is scheduled fairly and every f terminates: a step that only
\* the thread's own position enables is taken (WF); a step that needs the
\* mutex is taken by a thread that finds it free again and again (SF).
\* Nothing makes a thread call and_run or restrict_free_cpus_to.
LimiterFairness ==
    /\ \A t \in Threads : SF_vars(Lock(t))
    /\ \A t \in Threads : WF_vars(CheckFree(t))
    /\ \A t \in Threads : WF_vars(Wake(t))
    /\ \A t \in Threads : WF_vars(FReturns(t) \/ FPanics(t))
    /\ \A t \in Threads : SF_vars(Release(t))
    /\ WF_vars(RestrictSet)

LimiterFairSpec == LimiterSpecInit /\ [][LimiterNext]_vars /\ LimiterFairness

RunSpec == RunSpecInit /\ [][RunNext]_vars

\* ======================================================================
\* main.rs: Statistics, format_summary and the views of BenchifyResults
\* ======================================================================

\* The sum of the squares of count * (t - mean) over the data: count^2 times
\* `data.iter().map(|t| (t - mean).powf(2.)).sum()`, kept in whole numbers.
RECURSIVE SquaredDeviations(_, _, _)
SquaredDeviations(data, count, total) ==
    IF data = <<>> THEN 0
    ELSE (count * data[1] - total) * (count * data[1] - total)
         + SquaredDeviations(Tail(data), count, total)

\* `*data.iter().min().unwrap()` / `*data.iter().max().unwrap()`
SeqMin(data) == CHOOSE x \in {data[i] : i \in DOMAIN data} :
                   \A i \in DOMAIN data : x <= data[i]

SeqMax(data) == CHOOSE x \in {data[i] : i \in DOMAIN data} :
                   \A i \in DOMAIN data : x >= data[i]

\* The divisor of the squared-deviation sum:
\* `((data.len() - 1) as f64).powf(2.)`.
VarianceDivisor(count) == (count - 1) * (count - 1)

\* Statistics::new.  The mean is the fraction sum / count (Duration / u32
\* truncates it to a nanosecond, which keeps the order of the means of
\* decisecond data).  sample_variance is the fraction num / den, with the
\* count^2 of SquaredDeviations in den; 0 / 0 is NaN and
\* Duration::from_secs_f64 panics on it.  sample_stddev is the square root of
\* the fraction sq_num / sq_den.
Statistics_new(data) ==
    LET count == Len(data)
        total == SumSeq(data)
        num == SquaredDeviations(data, count, total)
        den == count * count * VarianceDivisor(count)
    IN  IF count = 0 THEN [kind |-> "panic", why |-> "assert_ne"]
        ELSE IF den = 0 THEN [kind |-> "panic", why |-> "from_secs_f64"]
        ELSE [kind |-> "ok",
              mean |-> [sum |-> total, count |-> count],
              sample_stddev |-> [sq_num |-> num, sq_den |-> den],
              min |-> SeqMin(data),
              max |-> SeqMax(data),
              count |-> count]

\* The order of two means (Ord of Duration).
MeanLess(a, b) == a.sum * b.count < b.sum * a.count

\* `t.as_ref().map(|t| Statistics::new(t))` on one (name, outcome) entry:
\* the Statistics, their panic, or the error.
Summarized(entry) ==
    IF entry[2].ok THEN Statistics_new(entry[2].timings)
    ELSE [kind |-> "err", err |-> entry[2].err]

\* C17 mutant: the first successful tool, whatever its mean.
min_by_key_first(S, stats) == CHOOSE i \in S : \A j \in S : i <= j

\* `.min_by_key(|(_t, s)| s.mean)` over the entries S: the first of the
\* entries with the least mean.
min_by_key(S, stats) ==
    CHOOSE i \in S :
        \A j \in S : /\ ~MeanLess(stats[j].mean, stats[i].mean)
                     /\ (~MeanLess(stats[i].mean, stats[j].mean) => i <= j)

\* format_summary(main, results): a panic, or the index of the comparison
\* point and one row per entry.  The iterator `summaries` is lazy: find()
\* computes the Statistics of the entries up to the main tool, filter() those
\* of every entry, and the rows those of every entry again.  A row carries
\* the values its cells are formatted from.
format_summary(main, entries) ==
    LET idx == DOMAIN entries
        stats == [i \in idx |-> Summarized(entries[i])]
        named == {i \in idx : IsSome(main) /\ entries[i][1] = Unwrap(main)}
        found == CHOOSE i \in named : \A j \in named : i <= j
        succeeded == {i \in idx : stats[i].kind # "err"}
        panics == IF IsSome(main)
                  THEN \/ named = {}
                       \/ \E j \in idx : j <= found /\ stats[j].kind = "panic"
                       \/ stats[found].kind = "err"
                  ELSE \/ \E j \in idx : stats[j].kind = "panic"
                       \/ succeeded = {}
        comparison_point == IF IsSome(main) THEN found
                            ELSE min_by_key(succeeded, stats)
        row(i) == [name |-> entries[i][1],
                   marked |-> entries[i][1] = entries[comparison_point][1],
                   stats |-> IF stats[i].kind = "ok" THEN Some(stats[i]) ELSE None,
                   ratio |-> IF stats[i].kind = "ok"
                             THEN Some([num |-> stats[i].mean.sum
                                                * stats[comparison_point].mean.count,
                                        den |-> stats[comparison_point].mean.sum
                                                * stats[i].mean.count])
                             ELSE None,
                   fail |-> IF stats[i].kind = "ok" THEN None
                            ELSE Some(stats[i].err)]
    IN  IF panics \/ \E j \in idx : stats[j].kind = "panic"
        THEN [kind |-> "panic"]
        ELSE [kind |-> "ok",
              comparison_point |-> entries[comparison_point][1],
              rows |-> [i \in idx |-> row(i)]]

\* `timings.as_deref().map_err(|e| eyre!("{}", e))`: the sample set as it
\* is, or a new error made of the message of the old one.
Formatted(outcome) ==
    IF outcome.ok THEN Ok(outcome.timings) ELSE Err(outcome.err)

\* The HashMap `mapped` of results_by_test after its first loop: under each
\* test name that occurs, the (executor, outcome) entries pushed in the order
\* of `results`.
mapped_by_test(rs) ==
    [test \in {rs[i][1] : i \in DOMAIN rs} |->
        LET mine == SelectSeq(rs, LAMBDA r : r[1] = test)
        IN  [i \in DOMAIN mine |-> <<mine[i][2], Formatted(mine[i][3])>>]]

\* The HashMap `mapped` of results_by_executor after its first loop: under
\* each executor with an Ok outcome, its (test, timings) entries.
mapped_by_executor(rs) ==
    LET oks == SelectSeq(rs, LAMBDA r : r[3].ok)
    IN  [executor \in {oks[i][2] : i \in DOMAIN oks} |->
            LET mine == SelectSeq(oks, LAMBDA r : r[2] = executor)
            IN  [i \in DOMAIN mine |-> <<mine[i][1], mine[i][3].timings>>]]

\* The second loop of both views: `if let Some((k, v)) =
\* mapped.remove_entry(key) { res.push((k, v)) }` for the keys in the order
\* of `results`; `removed` is what the loop has taken out of the map.
RECURSIVE Drained(_, _, _)
Drained(keys, mapped, removed) ==
    IF keys = <<>> THEN <<>>
    ELSE IF keys[1] \in DOMAIN mapped /\ keys[1] \notin removed
         THEN <<<<keys[1], mapped[keys[1]]>>>>
              \o Drained(Tail(keys), mapped, removed \cup {keys[1]})
         ELSE Drained(Tail(keys), mapped, removed)

\* C18 mutant: only the successful outcomes are grouped.
results_by_test_okOnly(rs) ==
    Drained([i \in DOMAIN rs |-> rs[i][1]],
            mapped_by_test(SelectSeq(rs, LAMBDA r : r[3].ok)), {})

\* BenchifyResults::results_by_test
results_by_test(rs) ==
    Drained([i \in DOMAIN rs |-> rs[i][1]], mapped_by_test(rs), {})

\* C19 mutant: a failed outcome is kept, with no timings.
results_by_executor_keepsFailed(rs) ==
    Drained([i \in DOMAIN rs |-> rs[i][2]],
            mapped_by_executor([i \in DOMAIN rs |-> <<rs[i][1], rs[i][2],
                                                       Ok(rs[i][3].timings)>>]), {})

\* BenchifyResults::results_by_executor
results_by_executor(rs) ==
    Drained([i \in DOMAIN rs |-> rs[i][2]], mapped_by_executor(rs), {})

\* `self.results_by_test()` is called on the results execute returned.
ResultsByTest ==
    /\ ReportFrame
    /\ status = "done" /\ by_test = None
    /\ by_test' = Some(results_by_test(results))
    /\ UNCHANGED <<execVars, by_executor, summaries>>

\* `self.results_by_executor()` is called on the results execute returned.
ResultsByExecutor ==
    /\ ReportFrame
    /\ status = "done" /\ by_executor = None
    /\ by_executor' = Some(results_by_executor(results))
    /\ UNCHANGED <<execVars, by_test, summaries>>

\* One turn of `for (test, results) in self.results_by_test() {
\* ... format_summary(self.main_tool, results)? ... }`; a panic of
\* format_summary unwinds out of main.
FormatSummary ==
    /\ ReportFrame
    /\ status = "done" /\ IsSome(by_test)
    /\ Len(summaries) < Len(Unwrap(by_test))
    /\ LET group == Unwrap(by_test)[Len(summaries) + 1]
           text == format_summary(main_tool, group[2])
       IN  /\ summaries' = Append(summaries, [test |-> group[1], summary |-> text])
           /\ status' = (IF text.kind = "panic" THEN "panic" ELSE status)
    /\ UNCHANGED <<phase, cur, prep, warm_done, initial_estimates,
                   remaining_iterations, preferred, timings, results, log,
                   by_test, by_executor>>

ReportNext ==
    \/ ResultsByTest
    \/ ResultsByExecutor
    \/ FormatSummary

\* The sample sets get_timings can return: 1 to MaxRuns executions.
SampleSets ==
    UNION {[1..n -> ElapsedTimes] : n \in 1..MaxRuns}

\* The Outcomes of a pair: a failure of a run, or a sample set.
Outcomes == {Err("exit")} \cup {Ok(ts) : ts \in SampleSets}

\* The configurations of ReportSpec: tests t1, t2 and tools fast, slow, with
\* or without a main tool (one of the tools: confirm_config_sanity).
ReportConfigs ==
    /\ parallel_prep = FALSE
    /\ warmup = None
    /\ min_runs = 1
    /\ max_runs = MaxRuns
    /\ tests = <<Test("t1", FALSE, None), Test("t2", FALSE, None)>>
    /\ tools = <<Tool("fast", Runner(None, None, None)),
                 Tool("slow", Runner(None, None, None))>>
    /\ main_tool \in {None, Some("fast"), Some("slow")}
    /\ workload = [i \in 1..2 |-> ElapsedTimes]

\* execute has returned Ok(BenchifyResults): one tuple per pair, test-major.
\* The first pair has any Outcome, the second any Outcome of at most two
\* measurements, the pairs of the second test a failure or one sample set.
\* The history of the run is not kept.
ExecReturned ==
    /\ status = "done"
    /\ phase = "end"
    /\ cur = NPairs + 1
    /\ prep = [k \in 1..NPairs |-> "pending"]
    /\ warm_done = 0
    /\ initial_estimates = <<>>
    /\ remaining_iterations = <<>>
    /\ preferred = 0
    /\ timings = None
    /\ log = <<>>
    /\ \E o1 \in Outcomes :
       \E o2 \in {o \in Outcomes : Len(o.timings) <= 2} :
       \E o3, o4 \in {Err("exit"), Ok(<<DurationStep, 2 * DurationStep>>)} :
         results = [k \in 1..NPairs |->
                       <<tests[TestOf(k)].name, tools[ToolOf(k)].name,
                         <<o1, o2, o3, o4>>[k]>>]

ReportInit == LimiterInit /\ RunIdle /\ ReportConfigs /\ ExecReturned /\ ReportIdle

ReportSpec == ReportInit /\ [][ReportNext]_vars

\* ======================================================================
\* Properties
\* ======================================================================

\* ---- the limiter (LimiterSpec)

\* Threads whose f is executing.
RunningThreads == {t \in Threads : pc[t] = "running"}

\* C1: under any interleaving of and_run callers and restrict_free_cpus_to
\* calls, the number of invocations of f executing at the same time never
\* exceeds the current ceiling num_cpus.
C1_ConcurrentWithinCeiling == Cardinality(RunningThreads) <= num_cpus

\* C1 witness: the ceiling was lowered, every slot under it is taken by a
\* running f, and another caller has been sent to sleep.
C1_Witness ==
    /\ num_cpus >= 1
    /\ num_cpus < TotalCpus
    /\ Cardinality(RunningThreads) = num_cpus
    /\ \E t \in Threads : pc[t] = "sleeping"

\* C2: in every reachable state num_blocked <= num_cpus <= the host's
\* processing units, whatever n the restrict_free_cpus_to calls passed.
C2_InUseCeilingTotal ==
    /\ 0 <= num_blocked
    /\ num_blocked <= num_cpus
    /\ num_cpus <= TotalCpus

\* C2 witness: a completed restrict_free_cpus_to(n) with n below the slots in
\* use has left the ceiling at the in-use count.
C2_Witness ==
    /\ mutex = None
    /\ IsSome(setter)
    /\ Unwrap(setter) < num_blocked
    /\ num_cpus = num_blocked

\* C10 (as claimed): once every caller has left and_run (returned or unwound
\* by a panic of f), no slot is in use.
C10_NoSlotLeaked ==
    (\A t \in Threads : pc[t] \in {"idle", "panicked"}) => num_blocked = 0

\* ---- Tool::run (RunSpec)

\* The drawn execution got as far as the comparison of the self-reported
\* time with the measured one.
TimingCompared ==
    /\ IsSome(run_out)
    /\ run_test.stdout_is_timing = Some(TRUE)
    /\ run_in.feeder_spawned \/ ~run_test.stdin_from_cmd
    /\ run_in.spawned
    /\ run_in.success
    /\ run_in.stdout.kind = "number"

\* C8 (as claimed): with stdout as the authoritative timing, the iteration
\* succeeds only if the self-reported time is strictly less than the measured
\* one, and then returns the self-reported time; a reported time greater than
\* or equal to the measured one (a tie included) fails.
C8_StrictlyLessOrFail ==
    TimingCompared =>
        IF run_in.stdout.ds < run_in.elapsed
        THEN Unwrap(run_out) = RunOk(run_in.stdout.ds)
        ELSE Unwrap(run_out).kind = "err"

\* ---- execute and get_timings (Spec, SamplerSpec)

MeasureKinds == {"warmup", "initial", "remaining"}

LogIdx == 1..Len(log)

\* A warmup or measured execution has been started.
MeasurementStarted == \E i \in LogIdx : log[i].kind \in MeasureKinds

\* The preparation of pair k failed in the sequential loop.
PrepareFailedAt(k) ==
    \E i \in LogIdx : log[i] = Event("prepare", k, "err")

\* An execution of pair k's measurement phase (warmup, initial estimate or
\* remaining iteration) returned an error.
SamplingFailedAt(k) ==
    \E i \in LogIdx : log[i].pair = k /\ log[i].kind \in MeasureKinds /\ log[i].res = "err"

\* The Outcome of pair k as far as it exists: the collected tuple, or what
\* get_timings has just returned for the current pair.
OutcomeOf(k) ==
    IF k < cur /\ k <= Len(results) THEN Some(results[k][3])
    ELSE IF k = cur THEN timings
    ELSE None

\* C3: with parallel preparation, no warmup or measurement execution begins
\* until the preparation of every pair has finished; once a preparation has
\* failed the run never leaves the preparation phase (it can only exit with
\* status 1) and no warmup or measurement execution ever happens.
C3_PreparationBarrier ==
    parallel_prep =>
        /\ MeasurementStarted => \A k \in 1..NPairs : prep[k] = "ok"
        /\ (\E k \in 1..NPairs : prep[k] = "failed") =>
              /\ ~MeasurementStarted
              /\ phase = "par_prep"
              /\ status \in {"running", "exit1"}
              /\ results = <<>>

\* C3 witness: every pair has a preparation command, all of them were run in
\* the parallel phase, and the run went on to measure and finish.
C3_Witness ==
    /\ parallel_prep
    /\ \A k \in 1..NPairs : IsSome(RunnerOf(k).prepare) /\ prep[k] = "ok"
    /\ MeasurementStarted
    /\ status = "done"

\* C4: without parallel preparation, a failure in one pair's measurement
\* phase is stored as that pair's Outcome only.  It never aborts the run (a
\* run that returned an error did so on a failed prepare or cleanup step,
\* its last execution), the failed pair's Outcome is the failure, and in the
\* Results of a completed run every pair declared after it was prepared,
\* measured and cleaned up, each Outcome being a failure exactly when that
\* pair's own measurement failed.
C4_MeasurementFailureIsLocal ==
    ~parallel_prep =>
        \A k \in 1..NPairs : SamplingFailedAt(k) =>
            /\ status = "error" =>
                  /\ log[Len(log)].kind \in {"prepare", "cleanup"}
                  /\ log[Len(log)].res = "err"
            /\ IsSome(OutcomeOf(k)) => ~Unwrap(OutcomeOf(k)).ok
            /\ k = cur => IsSome(timings)
            /\ status = "done" =>
                  /\ Len(results) = NPairs
                  /\ \A j \in 1..NPairs :
                        /\ results[j][3].ok <=> ~SamplingFailedAt(j)
                        /\ j > k =>
                             /\ IsSome(RunnerOf(j).prepare) =>
                                   \E i \in LogIdx : log[i] = Event("prepare", j, "ok")
                             /\ \E i \in LogIdx :
                                   log[i].pair = j /\ log[i].kind \in MeasureKinds
                             /\ IsSome(RunnerOf(j).cleanup) =>
                                   \E i \in LogIdx : log[i] = Event("cleanup", j, "ok")

\* C4 witness: the first pair's measurement failed, and the run completed
\* with the later pairs prepared, measured successfully and cleaned up.
C4_Witness ==
    /\ ~parallel_prep
    /\ status = "done"
    /\ SamplingFailedAt(1)
    /\ \A j \in 2..NPairs :
          /\ results[j][3].ok
          /\ IsSome(RunnerOf(j).prepare)
          /\ IsSome(RunnerOf(j).cleanup)

C6_AllOrNothing ==
    \A i \in LogIdx :
        (log[i].kind \in {"initial", "remaining"} /\ log[i].res = "err") =>
            /\ \A j \in LogIdx :
                  (j > i /\ log[j].pair = log[i].pair) => log[j].kind \notin MeasureKinds
            /\ log[i].pair = cur => IsSome(timings)
            /\ IsSome(OutcomeOf(log[i].pair)) =>
                  /\ ~Unwrap(OutcomeOf(log[i].pair)).ok
                  /\ Unwrap(OutcomeOf(log[i].pair)).timings = <<>>

\* C6 witness: a remaining iteration failed after measurements had been
\* taken, and the failure has been collected as the pair's Outcome.
C6_Witness ==
    \E i \in LogIdx :
        /\ log[i].kind = "remaining" /\ log[i].res = "err"
        /\ \E j \in LogIdx : j < i /\ log[j].kind = "initial" /\ log[j].res = "ok"
        /\ status = "done"
        /\ ~results[log[i].pair][3].ok

\* clamp(lo, hi, x)
Clamp(lo, hi, x) == IF x < lo THEN lo ELSE IF x > hi THEN hi ELSE x

\* The target iteration count of the specification for the initial
\* estimates taken: clamp(min_runs, max_runs, floor(2.5 s / mean)), the
\* quotient being unbounded for a mean of zero.
TargetCount(estimates) ==
    IF SumSeq(estimates) = 0
    THEN max_runs
    ELSE Clamp(min_runs, max_runs,
               (expected_time_ds * Len(estimates)) \div SumSeq(estimates))

\* get_timings has returned a sample set for the current pair.
SampleSetReturned ==
    /\ min_runs <= max_runs
    /\ phase = "cleanup"
    /\ IsSome(timings)
    /\ Unwrap(timings).ok

\* C7 (as claimed): when all executions succeed the sampler returns exactly
\* target_count = clamp(min_runs, max_runs, floor(2.5 s / mean)) durations.
C7_ExactlyTargetCount ==
    SampleSetReturned =>
        Len(Unwrap(timings).timings) = TargetCount(initial_estimates)

\* C7 (amended): a returned sample set holds exactly
\* max(target_count, initial_count) durations, initial_count = min(max_runs, 2)
\* (the initial estimates are kept even when target_count is smaller), made
\* of the initial estimates and target_count - initial_count further
\* executions if that is positive; the count never exceeds max_runs.
C7_TargetOrInitialCount ==
    SampleSetReturned =>
        LET ts == Unwrap(timings).timings
            initial_count == Min(max_runs, 2)
            target_count == TargetCount(initial_estimates)
        IN  /\ Len(initial_estimates) = initial_count
            /\ Len(ts) = Max(target_count, initial_count)
            /\ Len(remaining_iterations) = Max(target_count - initial_count, 0)
            /\ Len(ts) <= max_runs

\* C7 witness: two initial estimates of 2 s each give a target count of 1,
\* and the two of them are what is returned.
C7_Witness ==
    /\ SampleSetReturned
    /\ TargetCount(initial_estimates) < Len(initial_estimates)
    /\ Len(Unwrap(timings).timings) = 2

\* The measurement phase of pair k has completed successfully.
SampledOk(k) ==
    /\ ~SamplingFailedAt(k)
    /\ \/ k < cur
       \/ k = cur /\ IsSome(timings) /\ Unwrap(timings).ok

\* C9: for a pair whose runner defines a cleanup step and whose measurement
\* phase completed successfully, once the pair is behind the loop the cleanup
\* has been executed, after every execution of its measurement phase and
\* before any execution of a later pair; and cleanup is never executed for a
\* pair whose preparation failed.
C9_CleanupAfterMeasurement ==
    /\ \A k \in 1..NPairs :
          (k < cur /\ SampledOk(k) /\ IsSome(RunnerOf(k).cleanup)) =>
              \E c \in LogIdx :
                  /\ log[c].kind = "cleanup" /\ log[c].pair = k
                  /\ \A i \in LogIdx :
                        /\ (log[i].pair = k /\ i # c) => i < c
                        /\ log[i].pair > k => i > c
    /\ \A k \in 1..NPairs :
          (PrepareFailedAt(k) \/ prep[k] = "failed") =>
              \A i \in LogIdx : ~(log[i].kind = "cleanup" /\ log[i].pair = k)

\* C9 witness: the first pair was measured successfully and cleaned up, and
\* the second pair has started its executions.
C9_Witness ==
    /\ cur = 2
    /\ Len(results) = 1
    /\ results[1][3].ok
    /\ \E c \in LogIdx : log[c] = Event("cleanup", 1, "ok")
    /\ log[Len(log)].pair = 2

\* ---- Statistics, summaries and views (ReportSpec)

\* The tuples of `results` that belong to a test.
OutcomesOf(test) == SelectSeq(results, LAMBDA r : r[1] = test)

NoToolSucceeded(test) ==
    \A i \in DOMAIN OutcomesOf(test) : ~OutcomesOf(test)[i][3].ok

\* C11: building the summary of a test for which no tool succeeded does not
\* panic, with or without a main tool, and every failed pair is rendered as
\* a FAIL row that carries its error text.
C11_NoSuccessNoPanic ==
    \A i \in DOMAIN summaries :
        NoToolSucceeded(summaries[i].test) =>
            /\ summaries[i].summary.kind = "ok"
            /\ \A j \in DOMAIN OutcomesOf(summaries[i].test) :
                 summaries[i].summary.rows[j].fail
                     = Some(OutcomesOf(summaries[i].test)[j][3].err)

\* The rows of the summaries built so far that show Statistics: <<i, j>> is
\* row j of summary i.
ShownRows ==
    {p \in (DOMAIN summaries) \X (1..NTools) :
        /\ summaries[p[1]].summary.kind = "ok"
        /\ IsSome(summaries[p[1]].summary.rows[p[2]].stats)}

\* The sample set a shown row was computed from, and its Statistics.
SampleSetOf(p) == OutcomesOf(summaries[p[1]].test)[p[2]][3].timings

StatisticsOf(p) == Unwrap(summaries[p[1]].summary.rows[p[2]].stats)

\* count^2 times the sum of the squared deviations from the mean of ts.
DeviationSum(ts) ==
    SumSeq([i \in DOMAIN ts |->
               (Len(ts) * ts[i] - SumSeq(ts)) * (Len(ts) * ts[i] - SumSeq(ts))])

\* C12: for a sample set of two or more measurements the square of
\* sample_stddev (the sample variance) is the sum of the squared deviations
\* from the mean divided by count - 1.
C12_BesselVariance ==
    \A p \in ShownRows :
        LET ts == SampleSetOf(p)
            sd == StatisticsOf(p).sample_stddev
        IN  Len(ts) >= 2 =>
                sd.sq_num * (Len(ts) * Len(ts) * (Len(ts) - 1))
                    = DeviationSum(ts) * sd.sq_den

AllToolsSucceeded(test) ==
    \A i \in DOMAIN OutcomesOf(test) : OutcomesOf(test)[i][3].ok

\* C13: a sample set of exactly one measurement is reduced to Statistics
\* with a defined standard deviation: the summary of a test whose tools all
\* succeeded is built without a panic, and the row of a one-measurement
\* sample set shows a standard deviation that is a number.
C13_SingleSampleDefined ==
    \A i \in DOMAIN summaries :
        AllToolsSucceeded(summaries[i].test) =>
            \A j \in DOMAIN OutcomesOf(summaries[i].test) :
                Len(OutcomesOf(summaries[i].test)[j][3].timings) = 1 =>
                    /\ summaries[i].summary.kind = "ok"
                    /\ IsSome(summaries[i].summary.rows[j].stats)
                    /\ Unwrap(summaries[i].summary.rows[j].stats).sample_stddev.sq_den > 0

\* ---- the sampler, continued (SamplerSpec)

\* The executions of the given kinds logged for pair k.
EventsOf(k, kinds) == {i \in LogIdx : log[i].pair = k /\ log[i].kind \in kinds}

\* get_timings has computed the target count of the current pair.
TargetComputed ==
    \/ phase = "remaining"
    \/ phase = "cleanup" /\ IsSome(timings) /\ Unwrap(timings).ok

\* Once the target count is computed, exactly min(max_runs, 2) initial
\* estimates have been executed, all before any further iteration; they are
\* the first entries of the returned sample set; with max_runs = 1 one
\* measured execution is all there is.
C14_State ==
    /\ TargetComputed =>
         /\ Len(initial_estimates) = Min(max_runs, 2)
         /\ Cardinality(EventsOf(cur, {"initial"})) = Min(max_runs, 2)
         /\ \A i \in EventsOf(cur, {"initial"}), j \in EventsOf(cur, {"remaining"}) :
              i < j
    /\ SampleSetReturned =>
         /\ Len(Unwrap(timings).timings) >= Min(max_runs, 2)
         /\ SubSeq(Unwrap(timings).timings, 1, Min(max_runs, 2)) = initial_estimates
         /\ max_runs = 1 =>
              /\ Len(Unwrap(timings).timings) = 1
              /\ Cardinality(EventsOf(cur, {"initial", "remaining"})) = 1

\* The estimates are kept in execution order: the list changes only by the
\* duration of the initial-estimate execution just logged being put at its
\* end, or by being emptied for the next pair.
C14_Step ==
    initial_estimates' # initial_estimates =>
        \/ initial_estimates' = <<>>
        \/ /\ Len(initial_estimates') = Len(initial_estimates) + 1
           /\ SubSeq(initial_estimates', 1, Len(initial_estimates)) = initial_estimates
           /\ log' = Append(log, Event("initial", cur, "ok"))

\* C14: the sampler runs exactly min(max_runs, 2) initial-estimate executions
\* before it computes the target count, they are the first entries of the
\* returned sample set in execution order, and with max_runs = 1 exactly one
\* measured execution is performed.
C14_InitialEstimatesFirst == []C14_State /\ [][C14_Step]_vars

\* A sample set of three is returned whose first two entries are the two
\* initial estimates, 2 s then 1 s.
C14_Witness ==
    /\ SampleSetReturned
    /\ max_runs = 3
    /\ initial_estimates = <<2 * DurationStep, DurationStep>>
    /\ Len(Unwrap(timings).timings) = 3
    /\ Cardinality(EventsOf(cur, {"remaining"})) = 1

\* The warmup count set for pair k: the runner's own if present, otherwise
\* the global one (0 executions when neither is set).
SetWarmupCount(k) ==
    IF tools[ToolOf(k)].runners[tests[TestOf(k)].tag].warmup # None
    THEN tools[ToolOf(k)].runners[tests[TestOf(k)].tag].warmup[1]
    ELSE IF warmup # None THEN warmup[1] ELSE 0

\* The sampler of the current pair is past its warmup.
PastWarmup ==
    /\ cur <= NPairs
    /\ \/ phase \in {"initial", "remaining"}
       \/ SampleSetReturned
       \/ EventsOf(cur, {"initial", "remaining"}) # {}

\* C15: exactly the set number of warmup executions (the runner's own count,
\* otherwise the global one) are run before the first initial estimate, the
\* sample set holds only the durations of the measured executions, and after
\* a failed warmup execution the pair fails with no further warmup,
\* initial-estimate or measurement execution.
C15_WarmupDiscarded ==
    /\ PastWarmup =>
         /\ Cardinality(EventsOf(cur, {"warmup"})) = SetWarmupCount(cur)
         /\ \A i \in EventsOf(cur, {"warmup"}) :
              /\ log[i].res = "ok"
              /\ \A j \in EventsOf(cur, {"initial", "remaining"}) : i < j
    /\ SampleSetReturned =>
         Len(Unwrap(timings).timings)
             = Cardinality(EventsOf(cur, {"initial", "remaining"}))
    /\ \A i \in LogIdx :
         log[i].kind = "warmup" /\ log[i].res = "err" =>
             /\ \A j \in LogIdx :
                  j > i /\ log[j].pair = log[i].pair =>
                      log[j].kind \notin MeasureKinds
             /\ (status = "running" /\ cur = log[i].pair) =>
                    phase = "cleanup" /\ IsSome(timings) /\ ~Unwrap(timings).ok

\* The runner's own count (1) is used although a global count (0) is set:
\* one warmup execution was run and a sample set without it is returned.
C15_Witness ==
    /\ SampleSetReturned
    /\ warmup = Some(0)
    /\ RunnerOf(cur).warmup = Some(1)
    /\ Cardinality(EventsOf(cur, {"warmup"})) = 1
    /\ Len(Unwrap(timings).timings) = 2

\* ---- the sequential loop, continued (Spec)

\* The place of each kind of execution in the processing of one pair.
PhaseRank(kind) ==
    CASE kind = "prepare" -> 1
      [] kind = "warmup" -> 2
      [] kind = "initial" -> 3
      [] kind = "remaining" -> 4
      [] kind = "cleanup" -> 5

\* The i-th pair in test-major, tool-minor declaration order.
DeclaredPair(i) ==
    <<tests[((i - 1) \div Len(tools)) + 1].name, tools[((i - 1) % Len(tools)) + 1].name>>

\* C16: with parallel preparation disabled the pairs are processed one at a
\* time in test-major, tool-minor declaration order: every execution of a
\* pair (prepare, warmup, measure, cleanup, in that order) comes before every
\* execution of the next pair, and Results lists the Outcomes in declaration
\* order.
C16_SequentialDeclarationOrder ==
    ~parallel_prep =>
        /\ \A i, j \in LogIdx :
             i < j =>
                 /\ log[i].pair <= log[j].pair
                 /\ log[i].pair = log[j].pair =>
                        PhaseRank(log[i].kind) <= PhaseRank(log[j].kind)
        /\ \A i \in LogIdx : log[i].pair <= cur
        /\ \A i \in DOMAIN results :
             /\ results[i][1] = DeclaredPair(i)[1]
             /\ results[i][2] = DeclaredPair(i)[2]
        /\ status = "running" => Len(results) = cur - 1
        /\ status = "done" => Len(results) = Len(tests) * Len(tools)

\* A whole run without parallel preparation: four pairs, the fourth with a
\* prepare, a measured and a cleanup execution after those of the third.
C16_Witness ==
    /\ ~parallel_prep
    /\ status = "done"
    /\ Len(results) = 4
    /\ \A k \in 1..4 : EventsOf(k, {"initial"}) # {}
    /\ EventsOf(4, {"prepare"}) # {}
    /\ EventsOf(4, {"cleanup"}) # {}
    /\ EventsOf(3, {"cleanup"}) # {}

\* ---- Statistics, summaries and views, continued (ReportSpec)

\* The Outcome of a tool for a test.
OutcomeFor(test, tool) ==
    LET mine == SelectSeq(results, LAMBDA r : r[1] = test /\ r[2] = tool)
    IN  mine[1][3]

\* The tools whose Outcome for the test is a success.
SucceededFor(test) ==
    {OutcomesOf(test)[j][2] : j \in {k \in DOMAIN OutcomesOf(test) :
                                       OutcomesOf(test)[k][3].ok}}

\* The mean of sample set a is at most the mean of sample set b.
MeanAtMost(a, b) == SumSeq(a) * Len(b) <= SumSeq(b) * Len(a)

\* C17: in every summary that is built, the comparison baseline is the
\* configured main tool, with its Statistics for that test, when a main tool
\* is configured; otherwise it is a tool that succeeded for that test and
\* whose mean is the lowest among the tools that succeeded.  A tool that
\* failed is never the baseline.
C17_BaselineSelection ==
    \A i \in DOMAIN summaries :
        summaries[i].summary.kind = "ok" =>
            LET test == summaries[i].test
                base == summaries[i].summary.comparison_point
            IN  /\ base \in SucceededFor(test)
                /\ main_tool # None => base = main_tool[1]
                /\ main_tool = None =>
                       \A tool \in SucceededFor(test) :
                           MeanAtMost(OutcomeFor(test, base).timings,
                                      OutcomeFor(test, tool).timings)
                /\ \A j \in DOMAIN summaries[i].summary.rows :
                       summaries[i].summary.rows[j].marked
                           <=> summaries[i].summary.rows[j].name = base

\* Without a main tool, the summary of t1 is built with the second tool as
\* the baseline: both succeeded and its mean (1 s) is below the first's (2 s).
C17_Witness ==
    /\ main_tool = None
    /\ Len(summaries) >= 1
    /\ summaries[1].summary.kind = "ok"
    /\ summaries[1].summary.comparison_point = "slow"
    /\ OutcomeFor("t1", "fast").ok
    /\ OutcomeFor("t1", "fast").timings = <<2 * DurationStep, 2 * DurationStep>>
    /\ OutcomeFor("t1", "slow").timings = <<DurationStep, DurationStep>>

\* C18: results_by_test returns one entry per test, in declaration order,
\* each holding the (tool, Outcome) pairs of that test in tool declaration
\* order: a success with its sample set, a failure with its message; no pair
\* is dropped or duplicated.
C18_GroupedByTest ==
    by_test # None =>
        LET view == by_test[1] IN
        /\ Len(view) = Len(tests)
        /\ \A t \in DOMAIN view :
             /\ view[t][1] = tests[t].name
             /\ Len(view[t][2]) = Len(tools)
             /\ \A u \in DOMAIN view[t][2] :
                  LET entry == view[t][2][u]
                      given == OutcomeFor(tests[t].name, tools[u].name)
                  IN  /\ entry[1] = tools[u].name
                      /\ entry[2].ok = given.ok
                      /\ entry[2].timings = given.timings
                      /\ entry[2].err = given.err

\* The view is computed for results in which the first tool failed for t1
\* and the second returned two measurements.
C18_Witness ==
    /\ by_test # None
    /\ ~OutcomeFor("t1", "fast").ok
    /\ Len(OutcomeFor("t1", "slow").timings) = 2
    /\ ~by_test[1][1][2][1][2].ok
    /\ OutcomeFor("t2", "fast").ok

\* The names of the tools that succeeded for some test, in declaration order.
ToolsWithSuccess ==
    SelectSeq([u \in DOMAIN tools |-> tools[u].name],
              LAMBDA name : \E i \in DOMAIN results : results[i][2] = name /\ results[i][3].ok)

\* The names of the tests for which the tool succeeded, in declaration order.
TestsPassedBy(tool) ==
    SelectSeq([t \in DOMAIN tests |-> tests[t].name],
              LAMBDA name : OutcomeFor(name, tool).ok)

\* C19: results_by_executor returns, for the tools in declaration order, the
\* (test, sample set) entries of the pairs that succeeded, in test order:
\* every failed pair is left out and every successful pair appears once (a
\* tool with no successful pair has no entry).
C19_GroupedByTool ==
    by_executor # None =>
        LET view == by_executor[1] IN
        /\ [i \in DOMAIN view |-> view[i][1]] = ToolsWithSuccess
        /\ \A i \in DOMAIN view :
             /\ [j \in DOMAIN view[i][2] |-> view[i][2][j][1]] = TestsPassedBy(view[i][1])
             /\ \A j \in DOMAIN view[i][2] :
                  view[i][2][j][2] = OutcomeFor(view[i][2][j][1], view[i][1]).timings

\* The view is computed for results in which the first tool failed for t1 and
\* succeeded for t2, and the second tool succeeded for both.
C19_Witness ==
    /\ by_executor # None
    /\ ~OutcomeFor("t1", "fast").ok
    /\ OutcomeFor("t2", "fast").ok
    /\ OutcomeFor("t1", "slow").ok
    /\ OutcomeFor("t2", "slow").ok
    /\ Len(by_executor[1]) = 2
    /\ Len(by_executor[1][1][2]) = 1

\* ---- the limiter, continued (LimiterFairSpec)

\* The callers inside and_run that have not acquired a slot yet.
WaitingThreads == {t \in Threads : pc[t] \in {"loop", "locked", "sleeping"}}

\* C20: with a ceiling of at least 1 throughout, every f terminating and
\* every thread scheduled fairly, whenever some caller is waiting in and_run
\* eventually some caller holds a slot and runs f.
C20_EventualProgress ==
    [](num_cpus >= 1) => ((WaitingThreads # {}) ~> (RunningThreads # {}))

\* The same progress when no f ever panics.
ProgressWithoutPanic ==
    [](num_cpus >= 1 /\ \A t \in Threads : pc[t] # "panicked")
        => ((WaitingThreads # {}) ~> (RunningThreads # {}))

\* Progress of one given caller.
ProgressOfFirstThread ==
    [](num_cpus >= 1 /\ \A t \in Threads : pc[t] # "panicked")
        => ((1 \in WaitingThreads) ~> (pc[1] = "running"))

\* ---- parallel preparation and the limiter (Spec)

\* The pairs whose preparation command is running.
PreparationsRunning == {k \in 1..NPairs : prep[k] = "running"}

\* C21: in parallel-preparation mode every preparation step runs inside
\* and_run, so each running preparation holds one of the limiter's slots and
\* the preparations running at the same time never outnumber the ceiling.
C21_PreparationUnderLimiter ==
    parallel_prep =>
        /\ Cardinality(PreparationsRunning) <= num_blocked
        /\ Cardinality(PreparationsRunning) <= num_cpus

\* ---- the sampler with max_runs = 0 (SamplerSpec)

\* C22: for every configuration that validation accepts (min_runs <=
\* max_runs, max_runs = 0 included), a pair whose executions all succeed gets
\* from the sampler a sample set that is not empty: the sampler neither
\* fails nor panics.
C22_NonEmptySampleSet ==
    (/\ min_runs <= max_runs
     /\ \A i \in LogIdx : log[i].res = "ok") =>
        /\ status # "panic"
        /\ timings # None =>
               /\ timings[1].ok
               /\ Len(timings[1].timings) >= 1

\* ---- the limiter's mutex (LimiterSpec)

\* C23: the mutex is held only while the counters are checked and updated:
\* a caller of and_run holds it only between its lock() and the end of the
\* `if`, never while its f is executing or while it sleeps in the retry
\* loop, so another caller can take the mutex while f runs.
C23_MutexHeldBriefly ==
    \A t \in Threads :
        /\ mutex = Some(t) => pc[t] = "locked"
        /\ pc[t] \in {"running", "sleeping", "panicked"} => mutex # Some(t)

\* While the f of one caller is executing, another caller holds the mutex
\* and a third sleeps in the retry loop.
C23_Witness ==
    \E t, u, v \in Threads :
        /\ pc[t] = "running"
        /\ pc[u] = "locked" /\ mutex = Some(u)
        /\ pc[v] = "sleeping"

\* ---- a ceiling of 0 (LimiterSpec)

\* While the ceiling is 0 no slot is in use and no f is executing.
C24_State == num_cpus = 0 => (num_blocked = 0 /\ RunningThreads = {})

\* restrict_free_cpus_to(0) that finds no slot in use stores a ceiling of 0;
\* a step taken while the ceiling is 0 starts no f; the ceiling leaves 0
\* only by a store of restrict_free_cpus_to.
C24_Step ==
    /\ (/\ mutex = Some(SetterId) /\ mutex' = None
        /\ setter = Some(0) /\ num_blocked = 0) => num_cpus' = 0
    /\ num_cpus = 0 => \A t \in Threads : pc'[t] # "running"
    /\ (num_cpus = 0 /\ num_cpus' # 0) => (mutex = Some(SetterId) /\ setter # Some(0))

\* C24: restrict_free_cpus_to(0) called while no slot is in use sets the
\* ceiling to 0, and from then on, until a later call raises the ceiling, no
\* caller of and_run invokes f: the clamp keeps the ceiling at or above the
\* slots in use, not at or above 1.
C24_ZeroCeilingBlocksAll == []C24_State /\ [][C24_Step]_vars

\* The ceiling is 0 after restrict_free_cpus_to(0) and a caller of and_run,
\* having found no free slot, sleeps in the retry loop.
C24_Witness ==
    /\ num_cpus = 0
    /\ setter = Some(0)
    /\ mutex = None
    /\ \E t \in Threads : pc[t] = "sleeping"

\* ---- the cleanup step (Spec)

\* C25: a cleanup step that fails makes execute return an error for the
\* whole run: it is the last execution of the run (no later pair is
\* processed) and no Results are produced, the Outcomes recorded for the
\* earlier pairs included.
C25_CleanupFailureAborts ==
    \A i \in LogIdx :
        log[i].kind = "cleanup" /\ log[i].res = "err" =>
            /\ status = "error"
            /\ results = <<>>
            /\ i = Len(log)
            /\ cur = log[i].pair

\* The cleanup of the second pair failed after the first pair was measured
\* and cleaned up: the run ended with an error and without Results.
C25_Witness ==
    /\ status = "error"
    /\ results = <<>>
    /\ Len(log) >= 1
    /\ log[Len(log)] = Event("cleanup", 2, "err")
    /\ \E i \in LogIdx : log[i] = Event("cleanup", 1, "ok")
    /\ \E i \in LogIdx : log[i] = Event("initial", 1, "ok")

\* The runner of pair k has a cleanup command.
HasCleanup(k) ==
    tools[((k - 1) % Len(tools)) + 1]
        .runners[tests[((k - 1) \div Len(tools)) + 1].tag].cleanup # None

\* Pair k is through: the loop has gone on to a later pair or has ended.
PairThrough(k) == k < cur

\* For each pair: at most one cleanup execution, after every warmup and
\* measured execution of the pair; exactly one (when the runner has a cleanup
\* command) once the pair is through, whether its sampling failed or not; and
\* the recorded Outcome is a success exactly when no execution of the sampler
\* failed, with one measurement per measured execution.
C26_State ==
    \A k \in 1..NPairs :
        /\ Cardinality(EventsOf(k, {"cleanup"})) <= 1
        /\ \A c \in EventsOf(k, {"cleanup"}), m \in EventsOf(k, MeasureKinds) : m < c
        /\ PairThrough(k) =>
               Cardinality(EventsOf(k, {"cleanup"})) = (IF HasCleanup(k) THEN 1 ELSE 0)
        /\ k <= Len(results) =>
               /\ results[k][3].ok
                      <=> \A m \in EventsOf(k, MeasureKinds) : log[m].res = "ok"
               /\ results[k][3].ok =>
                      Len(results[k][3].timings)
                          = Cardinality(EventsOf(k, {"initial", "remaining"}))

\* The tuple recorded for a pair carries what the sampler returned, and it
\* is recorded by the step that ends the pair's cleanup.
C26_Step ==
    Len(results') = Len(results) + 1 =>
        /\ phase = "cleanup"
        /\ timings # None
        /\ results'[Len(results')][3] = timings[1]
        /\ HasCleanup(cur) => log' = Append(log, Event("cleanup", cur, "ok"))

\* C26: for every pair that reaches its measurement phase, the cleanup step
\* is executed exactly once after the sampler has returned, whether sampling
\* succeeded or failed (a failure during warmup included), and the Outcome
\* recorded for the pair is what the sampler returned.
C26_CleanupAlwaysOnce == []C26_State /\ [][C26_Step]_vars

\* The sampling of the first pair failed during warmup; its cleanup was run
\* and the failure is recorded as its Outcome.
C26_Witness ==
    /\ Len(results) >= 1
    /\ ~results[1][3].ok
    /\ \E i \in LogIdx : log[i] = Event("warmup", 1, "err")
    /\ \E i \in LogIdx : log[i] = Event("cleanup", 1, "ok")
    /\ EventsOf(1, {"initial", "remaining"}) = {}

=============================================================================
